---- MODULE Spec2Model ----
(***************************************************************************)
(* A model of gabrielhuang/prototypical-networks:                          *)
(*   protonets/models/wasserstein.py    Sinkhorn solvers, Hungarian        *)
(*                                      matcher, Wasserstein and k-means   *)
(*                                      clustering                         *)
(*   scripts/train/few_shot/train_ravioli_free.py   the training loop      *)
(*                                                                         *)
(* Each component is a state machine of its own over its own variables     *)
(* (SpecTrain, SpecHungarian, SpecKMeans, SpecSinkhorn, SpecWasserstein);  *)
(* the variables of the other components stay at their idle values.        *)
(* SpecClusterWrappers runs the two clustering wrappers on one tensor.     *)
(***************************************************************************)
EXTENDS Integers, Sequences, FiniteSets, TLC

(***************************************************************************)
(* Bounds of the model.                                                    *)
(***************************************************************************)
\* Longest data loader (number of batches in one pass).
MaxLoader == 3
\* Number of iterations of the training loop the model follows.
MaxIter == 12
\* Largest number of rows and of columns of a cost matrix given to compute_hungarian.
MaxN == 3
\* Largest rank of a tensor X given to the clustering functions.
MaxRank == 3
\* Largest first coordinate of a data point given to k-means.
MaxX == 4
\* Largest iteration count given to k-means.
MaxKIter == 5
\* Largest number of rows and of columns of a cost matrix given to
\* compute_sinkhorn_stable directly.
MaxDim == 2
\* Largest iteration count given to compute_sinkhorn_stable directly.
MaxSinkhornIter == 2
\* Largest outer iteration count given to the Wasserstein clustering.
MaxOuter == 3

(***************************************************************************)
(* The state of the training loop (train_ravioli_free.py, main).           *)
(***************************************************************************)
VARIABLES
    loaderLen,        \* len(train_loader): batches in one pass
    valLen,           \* len(val_loader)
    trainval,         \* opt['data.trainval']
    t_pc,             \* "loop": at the head of the for loop; "hung": next() never returns
    t_iteration,      \* the loop variable `iteration` (= iterations finished)
    train_iter,       \* make_infinite(train_loader)
    other_train_iter, \* make_infinite(train_loader), None under trainval
    val_iter,         \* make_infinite(val_loader), None under trainval
    new_epoch,        \* the flag the last train_iter.next() returned
    sample,           \* the sample the last train_iter.next() returned: <<pass, index>>
    firstOfPass,      \* iterations whose training sample came with new_epoch = True
    savedAt,          \* iterations at which torch.save wrote current_model.pt
    schedulerSteps,   \* calls of scheduler.step()
    optimizerSteps,   \* calls of optimizer.step()
    logDumps          \* writes of log.json

trainVars == <<loaderLen, valLen, trainval, t_pc, t_iteration, train_iter,
               other_train_iter, val_iter, new_epoch, sample, firstOfPass,
               savedAt, schedulerSteps, optimizerSteps, logDumps>>

(***************************************************************************)
(* The state of a call of compute_hungarian.                               *)
(***************************************************************************)
VARIABLES
    h_pc,       \* "entry", "AssertionError" or "returned"
    h_m,        \* the argument m: [rows, cols, val], val[i][j] the cost of row i, column j
    h_called,   \* whether scipy's linear_sum_assignment was called
    h_col,      \* the returned col array (0-based column of each row)
    h_matrix,   \* the returned plan: h_matrix[i][j] a rational [num, den]
    h_cost      \* the returned cost, a rational [num, den]

hungarianVars == <<h_pc, h_m, h_called, h_col, h_matrix, h_cost>>

(***************************************************************************)
(* The state of a call of cluster_kmeans or cluster_kmeans_flat.           *)
(***************************************************************************)
VARIABLES
    k_pc,            \* where the call is: "cluster_kmeans", "cluster_kmeans_flat",
                     \* "loop", "reshape", "returned", "AssertionError", "ValueError"
    k_entry,         \* the function called: "cluster_kmeans" or "cluster_kmeans_flat"
    k_X,             \* the argument X: [shape, pts], pts the rows of a 2-D X
    k_X_flat,        \* the shape of cluster_kmeans' local X_flat (<<>> before the view)
    k_passed,        \* the shape of the tensor cluster_kmeans_flat received
    k_n_components,  \* n_components
    k_iterations,    \* iterations
    kmeansplusplus,  \* kmeansplusplus
    k_epsInv,        \* epsilon = 1 / k_epsInv
    k_indices,       \* the 0-based indices of the seed points
    k_centroids,     \* centroids: a sequence of points [s, d] standing for s / d
    k_iteration,     \* iterations of the main loop finished
    k_assignment,    \* distances.argmin(1) of the last iteration (0-based)
    k_result         \* the shape of the centroids the call returned (<<>> before)

kmeansVars == <<k_pc, k_entry, k_X, k_X_flat, k_passed, k_n_components,
                k_iterations, kmeansplusplus, k_epsInv, k_indices, k_centroids,
                k_iteration, k_assignment, k_result>>

(***************************************************************************)
(* The state of two successive calls of compute_sinkhorn_stable.           *)
(***************************************************************************)
VARIABLES
    s_pc,        \* "entry", "returned", "warm_returned", or the exception raised
    s_m,         \* the cost matrix m: [id, rows, cols]
    s_r,         \* the argument r: None or the signs of its entries
    s_c,         \* the argument c: None or the signs of its entries
    s_iterations,\* iterations of the first call
    s_first,     \* what the first call returned
    s_warm_iterations, \* iterations of the second, warm-started call
    s_second     \* what the second call returned

sinkhornVars == <<s_pc, s_m, s_r, s_c, s_iterations, s_first,
                  s_warm_iterations, s_second>>

(***************************************************************************)
(* The state of a call of cluster_wasserstein or cluster_wasserstein_flat. *)
(***************************************************************************)
VARIABLES
    w_pc,            \* "cluster_wasserstein", "cluster_wasserstein_flat", "loop",
                     \* "reshape", "returned", "AssertionError", "UnboundLocalError"
    w_entry,         \* the function called
    w_X,             \* the shape of the argument X
    w_passed,        \* the shape of the tensor cluster_wasserstein_flat received
    w_n_components,  \* n_components
    w_iterations,    \* iterations (outer)
    stop_gradient,   \* stop_gradient
    add_noise,       \* whether add_noise > 0
    w_requires_grad, \* X.requires_grad
    w_iteration,     \* outer iterations finished
    w_log_v,         \* the local log_v
    w_P,             \* the local P
    w_calls,         \* the calls of compute_sinkhorn_stable made, in order
    w_edges,         \* the autograd graph: <<tensor, operand it was computed from>>
    w_requires,      \* the tensors with requires_grad = True
    w_noised,        \* outer iterations whose centroids got noise added in place
    w_result         \* what the call returned

wassersteinVars == <<w_pc, w_entry, w_X, w_passed, w_n_components, w_iterations,
                     stop_gradient, add_noise, w_requires_grad, w_iteration,
                     w_log_v, w_P, w_calls, w_edges, w_requires, w_noised,
                     w_result>>

vars == <<trainVars, hungarianVars, kmeansVars, sinkhornVars, wassersteinVars>>

exceptTrain == <<hungarianVars, kmeansVars, sinkhornVars, wassersteinVars>>
exceptHungarian == <<trainVars, kmeansVars, sinkhornVars, wassersteinVars>>
exceptKMeans == <<trainVars, hungarianVars, sinkhornVars, wassersteinVars>>
exceptSinkhorn == <<trainVars, hungarianVars, kmeansVars, wassersteinVars>>
exceptWasserstein == <<trainVars, hungarianVars, kmeansVars, sinkhornVars>>

(***************************************************************************)
(* Values shared by the components.                                        *)
(***************************************************************************)
Max(a, b) == IF a >= b THEN a ELSE b

(***************************************************************************)
(* train_ravioli_free.py: the training loop.                               *)
(***************************************************************************)
\* for iteration in xrange(iterations)
iterations == 1000000

\* make_infinite(iterator) before its first next(): no pass begun.
\* pos = items of the current pass already yielded, passes = `for` loops begun.
make_infinite == [none |-> FALSE, pos |-> 0, passes |-> 0]

\* val_iter = None, and no other_train_iter, under opt['data.trainval'].
NoIterator == [none |-> TRUE, pos |-> 0, passes |-> 0]

\* `sample` before the first next().
NoSample == <<0, 0>>

\* Whether next() on the generator returns at all: over an empty iterator the
\* `while True` loop spins without ever reaching a yield.
GenYields(len) == len > 0

\* The generator after one next(): a new `for` begins on the first call and when
\* the current pass is exhausted.
GenAdvance(g, len) ==
    IF g.passes = 0 \/ g.pos = len
    THEN [g EXCEPT !.pos = 1, !.passes = g.passes + 1]
    ELSE [g EXCEPT !.pos = g.pos + 1]

\* The flag yielded with the item: True for the first item of a pass
\* (new_epoch = True before the `for`, False after each yield).
GenNewEpoch(g, len) == g.passes = 0 \/ g.pos = len

\* The item yielded: <<pass, index within the pass>>.
GenItem(g, len) ==
    LET h == GenAdvance(g, len) IN <<h.passes, h.pos>>

\* if iteration % 10 == 0 and val_iter is not None
SamplesValidation(it, vit) == it % 10 = 0 /\ ~vit.none

\* if new_epoch and iteration>0: scheduler.step()
ShouldStepScheduler(it, ne) == ne /\ it > 0

\* Saving on the first item of every pass, the very first iteration included
ShouldSaveAlways(it, ne) == ne

\* if iteration>0 and new_epoch: torch.save(model, .../current_model.pt)
ShouldSave(it, ne) == it > 0 /\ ne

\* if iteration % 100 == 0 or iteration < 10: dump log.json
ShouldDumpLog(it) == it % 100 = 0 \/ it < 10

TrainIdle ==
    /\ loaderLen = 0 /\ valLen = 0 /\ trainval = FALSE
    /\ t_pc = "idle" /\ t_iteration = 0
    /\ train_iter = NoIterator /\ other_train_iter = NoIterator /\ val_iter = NoIterator
    /\ new_epoch = FALSE /\ sample = NoSample
    /\ firstOfPass = {} /\ savedAt = {}
    /\ schedulerSteps = 0 /\ optimizerSteps = 0 /\ logDumps = 0

\* main(opt) up to the head of the training loop.
TrainInit ==
    /\ loaderLen \in 0..MaxLoader
    /\ valLen \in 0..MaxLoader
    /\ trainval \in BOOLEAN
    /\ t_pc = "loop"
    /\ t_iteration = 0
    /\ train_iter = make_infinite
    /\ other_train_iter = IF trainval THEN NoIterator ELSE make_infinite
    /\ val_iter = IF trainval THEN NoIterator ELSE make_infinite
    /\ new_epoch = FALSE /\ sample = NoSample
    /\ firstOfPass = {} /\ savedAt = {}
    /\ schedulerSteps = 0 /\ optimizerSteps = 0 /\ logDumps = 0

\* One iteration of the training loop, from train_iter.next() to the log dump.
TrainIteration ==
    /\ t_pc = "loop"
    /\ t_iteration < iterations
    /\ t_iteration < MaxIter
    /\ GenYields(loaderLen)
    /\ LET ne == GenNewEpoch(train_iter, loaderLen)
           val == SamplesValidation(t_iteration, val_iter)
       IN /\ val => GenYields(valLen)
          /\ sample' = IF val THEN GenItem(val_iter, valLen)
                       ELSE GenItem(train_iter, loaderLen)
          /\ new_epoch' = ne
          /\ train_iter' = GenAdvance(train_iter, loaderLen)
          /\ optimizerSteps' = optimizerSteps + 1
          /\ val_iter' = IF val THEN GenAdvance(val_iter, valLen) ELSE val_iter
          /\ other_train_iter' = IF val THEN GenAdvance(other_train_iter, loaderLen)
                                 ELSE other_train_iter
          /\ firstOfPass' = IF ne THEN firstOfPass \cup {t_iteration} ELSE firstOfPass
          /\ schedulerSteps' = IF ShouldStepScheduler(t_iteration, ne)
                               THEN schedulerSteps + 1 ELSE schedulerSteps
          /\ savedAt' = IF ShouldSave(t_iteration, ne)
                        THEN savedAt \cup {t_iteration} ELSE savedAt
          /\ logDumps' = IF ShouldDumpLog(t_iteration) THEN logDumps + 1 ELSE logDumps
          /\ t_iteration' = t_iteration + 1
    /\ UNCHANGED <<loaderLen, valLen, trainval, t_pc>>
    /\ UNCHANGED exceptTrain

\* next() on a generator over an empty loader never returns: the loop hangs in
\* train_iter.next(), or, after the training step, in val_iter.next().
TrainHang ==
    /\ t_pc = "loop"
    /\ t_iteration < iterations
    /\ t_iteration < MaxIter
    /\ \/ ~GenYields(loaderLen)
       \/ SamplesValidation(t_iteration, val_iter) /\ ~GenYields(valLen)
    /\ t_pc' = "hung"
    /\ IF GenYields(loaderLen)
       THEN /\ sample' = GenItem(train_iter, loaderLen)
            /\ new_epoch' = GenNewEpoch(train_iter, loaderLen)
            /\ train_iter' = GenAdvance(train_iter, loaderLen)
            /\ optimizerSteps' = optimizerSteps + 1
            /\ firstOfPass' = IF GenNewEpoch(train_iter, loaderLen)
                              THEN firstOfPass \cup {t_iteration} ELSE firstOfPass
       ELSE UNCHANGED <<sample, new_epoch, train_iter, optimizerSteps, firstOfPass>>
    /\ UNCHANGED <<loaderLen, valLen, trainval, t_iteration, other_train_iter,
                   val_iter, savedAt, schedulerSteps, logDumps>>
    /\ UNCHANGED exceptTrain

TrainNext == TrainIteration \/ TrainHang

(***************************************************************************)
(* Properties of the training loop.                                        *)
(***************************************************************************)
\* Passes over the training loader all of whose samples have been trained on.
CompletedPasses == t_iteration \div loaderLen

\* C6 as stated: the checkpoint is written at exactly the iterations i > 0 whose
\* sample opens a new pass, and once E passes over the loader are complete
\* exactly E checkpoints have been written.
C6_Original ==
    (t_pc = "loop" /\ loaderLen > 0) =>
        /\ savedAt = firstOfPass \ {0}
        /\ Cardinality(savedAt) = CompletedPasses

\* C6 amended: the checkpoint is written at exactly the iterations i > 0 whose
\* sample opens a new pass; that is one checkpoint per pass begun after the
\* first, so when E >= 1 passes are complete and the next has not begun, E - 1
\* checkpoints have been written, and the E-th follows in the first iteration
\* of pass E + 1.
C6_SavedWhenNextPassBegins ==
    (t_pc \in {"loop", "hung"} /\ loaderLen > 0) =>
        /\ savedAt = firstOfPass \ {0}
        /\ Cardinality(savedAt) = Max(train_iter.passes, 1) - 1
        /\ (t_iteration > 0 /\ t_iteration % loaderLen = 0 /\ t_pc = "loop")
              => Cardinality(savedAt) = CompletedPasses - 1
        /\ (t_iteration % loaderLen # 0 /\ t_pc = "loop")
              => Cardinality(savedAt) = CompletedPasses

\* Two passes over a loader of two batches are complete, and one checkpoint
\* (at iteration 2) has been written.
C6_Witness ==
    /\ t_pc = "loop" /\ loaderLen = 2 /\ t_iteration = 4
    /\ savedAt = {2} /\ firstOfPass = {0, 2}

(***************************************************************************)
(* wasserstein.py: compute_hungarian.                                      *)
(***************************************************************************)
\* The entries of the cost matrices the model draws.
Costs == {0, 1}

Rat(n, d) == [num |-> n, den |-> d]
RatLeq(a, b) == a.num * b.den <= b.num * a.den
RatIsZero(a) == a.num = 0

RECURSIVE SumTo(_, _)
\* f[1] + ... + f[n]
SumTo(f, n) == IF n = 0 THEN 0 ELSE f[n] + SumTo(f, n - 1)

\* The assignments of n rows to n distinct columns, as 0-based col arrays.
Assignments(n) ==
    {p \in [1..n -> 0..(n - 1)] : \A i, j \in 1..n : p[i] = p[j] => i = j}

\* cost[row, col].sum() of an assignment
AssignmentCost(m, p) == SumTo([i \in 1..m.rows |-> m.val[i][p[i] + 1]], m.rows)

\* scipy.optimize.linear_sum_assignment on a square matrix: row = arange(n) and
\* col an assignment of minimum cost; which one among several of the same cost
\* is the library's choice.
hungarian(m) ==
    LET all == Assignments(m.rows)
        costs == {AssignmentCost(m, q) : q \in all}
        least == CHOOSE x \in costs : \A y \in costs : x <= y
    IN {p \in all : AssignmentCost(m, p) = least}

AssignedMassUnscaled(m) == Rat(1, 1)

\* 1. / float(len(m))
AssignedMass(m) == Rat(1, m.rows)

\* matrix = np.zeros(m.size()); matrix[row, col] = 1. / float(len(m))
PlanOf(m, col) ==
    [i \in 1..m.rows |->
        [j \in 1..m.cols |-> IF col[i] = j - 1 THEN AssignedMass(m) ELSE Rat(0, 1)]]

\* (matrix * m_numpy).sum(): every entry of matrix is 0 or the assigned mass,
\* so the sum is taken over the denominator of the assigned mass.
PlanCost(m, matrix) ==
    LET den == AssignedMass(m).den
        rowSum(i) == SumTo([j \in 1..m.cols |->
                              (matrix[i][j].num * (den \div matrix[i][j].den)) * m.val[i][j]],
                           m.cols)
    IN Rat(SumTo([i \in 1..m.rows |-> rowSum(i)], m.rows), den)

HungarianIdle ==
    /\ h_pc = "idle" /\ h_m = [rows |-> 0, cols |-> 0, val |-> <<>>]
    /\ h_called = FALSE /\ h_col = <<>> /\ h_matrix = <<>> /\ h_cost = Rat(0, 1)

HungarianInit ==
    /\ h_pc = "entry"
    /\ \E r, c \in 1..MaxN :
         \E v \in [1..r -> [1..c -> Costs]] :
            h_m = [rows |-> r, cols |-> c, val |-> v]
    /\ h_called = FALSE /\ h_col = <<>> /\ h_matrix = <<>> /\ h_cost = Rat(0, 1)

\* assert m.size()[0] == m.size()[1] fails
HungarianReject ==
    /\ h_pc = "entry"
    /\ h_m.rows # h_m.cols
    /\ h_pc' = "AssertionError"
    /\ UNCHANGED <<h_m, h_called, h_col, h_matrix, h_cost>>
    /\ UNCHANGED exceptHungarian

\* compute_hungarian(m) on a square matrix, from the assert to the return
HungarianMatch ==
    /\ h_pc = "entry"
    /\ h_m.rows = h_m.cols
    /\ \E col \in hungarian(h_m) :
         /\ h_col' = col
         /\ h_matrix' = PlanOf(h_m, col)
         /\ h_cost' = PlanCost(h_m, PlanOf(h_m, col))
    /\ h_called' = TRUE
    /\ h_pc' = "returned"
    /\ UNCHANGED h_m
    /\ UNCHANGED exceptHungarian

HungarianNext == HungarianReject \/ HungarianMatch

(***************************************************************************)
(* Properties of compute_hungarian.                                        *)
(***************************************************************************)
\* The cost of the identity assignment: 1/n on the diagonal.
IdentityCost(m) == Rat(SumTo([i \in 1..m.rows |-> m.val[i][i]], m.rows), m.rows)

NonZeroInRow(i) == {j \in 1..h_m.cols : ~RatIsZero(h_matrix[i][j])}
NonZeroInColumn(j) == {i \in 1..h_m.rows : ~RatIsZero(h_matrix[i][j])}

\* C4: on a square n x n matrix compute_hungarian returns a col array that is a
\* permutation of 0..n-1, a plan with exactly one non-zero entry, 1/n, in each
\* row and each column, and a cost no larger than that of the identity
\* assignment; a non-square matrix fails the assertion before the matcher is
\* called.
C4_HungarianBijection ==
    /\ h_pc = "returned" =>
          LET n == h_m.rows IN
          /\ h_m.rows = h_m.cols
          /\ h_called
          /\ Len(h_col) = n
          /\ {h_col[i] : i \in 1..n} = 0..(n - 1)
          /\ \A i \in 1..n : \E j \in 1..n :
                /\ NonZeroInRow(i) = {j}
                /\ h_matrix[i][j] = Rat(1, n)
                /\ h_col[i] = j - 1
          /\ \A j \in 1..n : Cardinality(NonZeroInColumn(j)) = 1
          /\ RatLeq(h_cost, IdentityCost(h_m))
    /\ h_pc = "AssertionError" => h_m.rows # h_m.cols /\ ~h_called
    /\ h_pc \in {"returned", "AssertionError"} =>
          (h_pc = "returned" <=> h_m.rows = h_m.cols)

\* A 3 x 3 matrix whose best assignment is not the identity and costs less.
C4_Witness ==
    /\ h_pc = "returned" /\ h_m.rows = 3
    /\ h_col = <<1, 2, 0>>
    /\ h_cost = Rat(0, 3) /\ IdentityCost(h_m) = Rat(3, 3)

\* A non-square matrix rejected at the assertion.
C4_WitnessRejected ==
    h_pc = "AssertionError" /\ h_m.rows = 2 /\ h_m.cols = 3

(***************************************************************************)
(* Tensor shapes, integer vectors and exact fractions.                     *)
(***************************************************************************)
RECURSIVE Prod(_)
\* The number of elements of a tensor of shape sh
Prod(sh) == IF sh = <<>> THEN 1 ELSE Head(sh) * Prod(Tail(sh))

\* X.view((len(X), -1))
FlatShape(sh) == <<Head(sh), Prod(Tail(sh))>>

\* size = list(X.size()); size[0] = n_components
CentroidSize(sh, k) == <<k>> \o Tail(sh)

VecAdd(a, b) == [i \in 1..Len(a) |-> a[i] + b[i]]
VecScale(c, a) == [i \in 1..Len(a) |-> c * a[i]]
VecSub(a, b) == [i \in 1..Len(a) |-> a[i] - b[i]]
Norm2(a) == SumTo([i \in 1..Len(a) |-> a[i] * a[i]], Len(a))
ZeroVec(d) == [i \in 1..d |-> 0]

RECURSIVE FracLess(_, _, _, _)
\* a/b < c/d for a, c >= 0 and b, d > 0, by the continued fractions of the two
\* (no product is formed, so nothing overflows)
FracLess(a, b, c, d) ==
    LET qa == a \div b
        qc == c \div d
        ra == a % b
        rc == c % d
    IN IF qa # qc THEN qa < qc
       ELSE IF rc = 0 THEN FALSE
       ELSE IF ra = 0 THEN TRUE
       ELSE FracLess(d, rc, b, ra)

RatLess(a, b) == FracLess(a.num, a.den, b.num, b.den)

(***************************************************************************)
(* wasserstein.py: get_pairwise_distances, cluster_kmeans_flat,            *)
(* cluster_kmeans.                                                         *)
(*                                                                         *)
(* A data point is a vector of integers. A centroid is a point [s, d]      *)
(* standing for the vector s / d, so that the means the loop computes are  *)
(* exact. epsilon is the fraction 1 / k_epsInv.                            *)
(***************************************************************************)
\* X[i].clone(): a data point as a centroid
AsCentroid(x) == [s |-> x, d |-> 1]

\* One entry of get_pairwise_distances(X, centroids): the squared Euclidean
\* distance from the data point x to the centroid c, as a fraction.
get_pairwise_distances(x, c) ==
    Rat(Norm2(VecSub(VecScale(c.d, x), c.s)), c.d * c.d)

\* The distances from x to each centroid
DistancesRow(x, centroids) ==
    [j \in 1..Len(centroids) |-> get_pairwise_distances(x, centroids[j])]

Farthest(row) ==
    {j \in 1..Len(row) : \A l \in 1..Len(row) : ~RatLess(row[j], row[l])}

\* distances.argmin(1) for one row: the 1-based indices of the smallest entry
\* (which of several equal entries argmin reports is the library's choice)
Nearest(row) ==
    {j \in 1..Len(row) : \A l \in 1..Len(row) : ~RatLess(row[l], row[j])}

\* The results distances.argmin(1) can have: 0-based centroid of each point
Assignments01(pts, centroids) ==
    LET distances == [i \in 1..Len(pts) |-> DistancesRow(pts[i], centroids)]
        near == [i \in 1..Len(pts) |-> Nearest(distances[i])]
    IN {a \in [1..Len(pts) -> 0..(Len(centroids) - 1)] :
           \A i \in 1..Len(pts) : a[i] + 1 \in near[i]}

RECURSIVE SumAssigned(_, _, _, _)
\* The sum of the points pts[1..n] assigned to centroid j, and how many they are
SumAssigned(pts, a, j, n) ==
    IF n = 0 THEN [sum |-> ZeroVec(Len(pts[1])), cnt |-> 0]
    ELSE LET rest == SumAssigned(pts, a, j, n - 1)
         IN IF a[n] = j
            THEN [sum |-> VecAdd(rest.sum, pts[n]), cnt |-> rest.cnt + 1]
            ELSE rest

\* weights = assignment_matrix / (epsilon + assignment_matrix.sum(0))
\* centroids = torch.matmul(weights.t(), X)
\* Column j: sum / (1/epsInv + cnt) = (epsInv * sum) / (1 + epsInv * cnt).
NewCentroid(acc, epsInv) ==
    [s |-> VecScale(epsInv, acc.sum), d |-> 1 + epsInv * acc.cnt]

Maximization(pts, a, k, epsInv) ==
    [j \in 1..k |-> NewCentroid(SumAssigned(pts, a, j - 1, Len(pts)), epsInv)]

\* np.random.choice(range(len(X)), size=n_components, replace=False)
ChoiceWithoutReplacement(n, k) ==
    {ix \in [1..k -> 0..(n - 1)] : \A i, j \in 1..k : ix[i] = ix[j] => i = j}

\* D, __ = get_pairwise_distances(X, centroids).min(1), for the point of index i
\* and the centroids seeded so far (data points, so the distance is an integer)
SeedDistance(pts, ix, i) ==
    LET ds == {Norm2(VecSub(pts[i + 1], pts[ix[l] + 1])) : l \in 1..Len(ix)}
    IN CHOOSE m \in ds : \A o \in ds : m <= o

RECURSIVE PlusPlusSeeds(_, _)
\* The index sequences the k-means++ loop can have drawn after j rounds: the
\* first uniformly, each later one with probability proportional to D.
PlusPlusSeeds(pts, j) ==
    IF j = 1 THEN {<<i>> : i \in 0..(Len(pts) - 1)}
    ELSE UNION {{Append(ix, i) :
                    i \in {l \in 0..(Len(pts) - 1) : SeedDistance(pts, ix, l) > 0}} :
                ix \in PlusPlusSeeds(pts, j - 1)}

\* p = p / p.sum() is NaN when every D is 0, and np.random.choice(p=p) raises
PlusPlusFails(pts, k) ==
    \E j \in 1..(k - 1) : \E ix \in PlusPlusSeeds(pts, j) :
        \A i \in 0..(Len(pts) - 1) : SeedDistance(pts, ix, i) = 0

\* The seed indices the initialization can draw
Seeds(pts, k, plusplus) ==
    IF plusplus THEN PlusPlusSeeds(pts, k)
    ELSE ChoiceWithoutReplacement(Len(pts), k)

\* Whether the initialization can raise: k-means++ on points at distance 0 of the
\* seeds, or more seeds asked for than there are points
SeedingFails(pts, k, plusplus) ==
    IF plusplus THEN PlusPlusFails(pts, k) ELSE k > Len(pts)

ForwardedFlat(x, x_flat) == x_flat

\* centroids_flat = cluster_kmeans_flat(X, ...): the tensor cluster_kmeans forwards
Forwarded(x, x_flat) == x

\* The shapes of X the model draws: 4 points, trailing dimensions of 1 or 2.
Shapes == {<<4>> \o t : t \in UNION {[1..r -> {1, 2}] : r \in 0..(MaxRank - 1)}}

\* The data points of a 4 x 2 tensor X
Grid == {<<x, y>> : x \in 0..MaxX, y \in {0, 1}}

\* The squared distances within the pairs (rows 1 and 2, rows 3 and 4) and
\* between them
IntraPair(pts) == {Norm2(VecSub(pts[1], pts[2])), Norm2(VecSub(pts[3], pts[4]))}
InterPair(pts) == {Norm2(VecSub(pts[i], pts[j])) : i \in {1, 2}, j \in {3, 4}}

\* Four points that form two well-separated pairs: the two points of a pair
\* differ, and any two points of different pairs are more than twice as far
\* apart as the two points of a pair.
WellSeparatedPairs(pts) ==
    \A a \in IntraPair(pts), b \in InterPair(pts) : 0 < a /\ 4 * a < b

\* The rows of X.view((len(X), -1)) for an X of any shape: row i holds i - 1 in
\* every column, or all rows are equal
Rows(sh, same) ==
    [i \in 1..Head(sh) |-> [j \in 1..Prod(Tail(sh)) |-> IF same THEN 1 ELSE i - 1]]

KMeansIdle ==
    /\ k_pc = "idle" /\ k_entry = "none"
    /\ k_X = [shape |-> <<>>, pts |-> <<>>]
    /\ k_X_flat = <<>> /\ k_passed = <<>>
    /\ k_n_components = 0 /\ k_iterations = 0 /\ kmeansplusplus = FALSE
    /\ k_epsInv = 1
    /\ k_indices = <<>> /\ k_centroids = <<>> /\ k_iteration = 0
    /\ k_assignment = <<>> /\ k_result = <<>>

\* The state at the call, but for the arguments
KMeansCalled ==
    /\ k_pc = k_entry
    /\ k_X_flat = <<>>
    /\ k_passed = IF k_entry = "cluster_kmeans_flat" THEN k_X.shape ELSE <<>>
    /\ k_indices = <<>> /\ k_centroids = <<>> /\ k_iteration = 0
    /\ k_assignment = <<>> /\ k_result = <<>>

\* cluster_kmeans_flat(X, 2) on a 4 x 2 tensor of two well-separated pairs of
\* grid points, or either function on a tensor of any shape, with or without
\* k-means++; epsilon = 1/1000.
KMeansInit ==
    /\ \/ /\ k_X \in [shape : {<<4, 2>>},
                      pts : {p \in [1..4 -> Grid] : WellSeparatedPairs(p)}]
          /\ k_entry = "cluster_kmeans_flat"
          /\ kmeansplusplus = FALSE
       \/ /\ \E sh \in Shapes, same \in BOOLEAN :
                k_X = [shape |-> sh, pts |-> Rows(sh, same)]
          /\ k_entry \in {"cluster_kmeans", "cluster_kmeans_flat"}
          /\ kmeansplusplus \in BOOLEAN
    /\ k_n_components = 2
    /\ k_iterations \in {0, MaxKIter}
    /\ k_epsInv = 1000
    /\ KMeansCalled

\* cluster_kmeans up to its call of cluster_kmeans_flat
KWrapper ==
    /\ k_pc = "cluster_kmeans"
    /\ k_X_flat' = FlatShape(k_X.shape)
    /\ k_passed' = Forwarded(k_X.shape, FlatShape(k_X.shape))
    /\ k_pc' = "cluster_kmeans_flat"
    /\ UNCHANGED <<k_entry, k_X, k_n_components, k_iterations, kmeansplusplus,
                   k_epsInv, k_indices, k_centroids, k_iteration, k_assignment,
                   k_result>>
    /\ UNCHANGED exceptKMeans

\* assert len(X.size()) == 2 fails
KAssertFail ==
    /\ k_pc = "cluster_kmeans_flat"
    /\ Len(k_passed) # 2
    /\ k_pc' = "AssertionError"
    /\ UNCHANGED <<k_entry, k_X, k_X_flat, k_passed, k_n_components, k_iterations,
                   kmeansplusplus, k_epsInv, k_indices, k_centroids, k_iteration,
                   k_assignment, k_result>>
    /\ UNCHANGED exceptKMeans

\* The initialization of the centroids, from the assert to the head of the loop
KSeed ==
    /\ k_pc = "cluster_kmeans_flat"
    /\ Len(k_passed) = 2
    /\ \E ix \in Seeds(k_X.pts, k_n_components, kmeansplusplus) :
         /\ k_indices' = ix
         /\ k_centroids' = [j \in 1..k_n_components |-> AsCentroid(k_X.pts[ix[j] + 1])]
    /\ k_pc' = "loop"
    /\ UNCHANGED <<k_entry, k_X, k_X_flat, k_passed, k_n_components, k_iterations,
                   kmeansplusplus, k_epsInv, k_iteration, k_assignment, k_result>>
    /\ UNCHANGED exceptKMeans

\* np.random.choice raises ValueError
KSeedFail ==
    /\ k_pc = "cluster_kmeans_flat"
    /\ Len(k_passed) = 2
    /\ SeedingFails(k_X.pts, k_n_components, kmeansplusplus)
    /\ k_pc' = "ValueError"
    /\ UNCHANGED <<k_entry, k_X, k_X_flat, k_passed, k_n_components, k_iterations,
                   kmeansplusplus, k_epsInv, k_indices, k_centroids, k_iteration,
                   k_assignment, k_result>>
    /\ UNCHANGED exceptKMeans

\* One iteration of the main loop: expectation, then maximization
KIterate ==
    /\ k_pc = "loop"
    /\ k_iteration < k_iterations
    /\ \E a \in Assignments01(k_X.pts, k_centroids) :
         /\ k_assignment' = a
         /\ k_centroids' = Maximization(k_X.pts, a, k_n_components, k_epsInv)
    /\ k_iteration' = k_iteration + 1
    /\ UNCHANGED <<k_pc, k_entry, k_X, k_X_flat, k_passed, k_n_components,
                   k_iterations, kmeansplusplus, k_epsInv, k_indices, k_result>>
    /\ UNCHANGED exceptKMeans

\* return centroids, to the caller or to cluster_kmeans
KReturn ==
    /\ k_pc = "loop"
    /\ k_iteration = k_iterations
    /\ IF k_entry = "cluster_kmeans_flat"
       THEN /\ k_pc' = "returned"
            /\ k_result' = <<k_n_components, k_passed[2]>>
       ELSE /\ k_pc' = "reshape"
            /\ UNCHANGED k_result
    /\ UNCHANGED <<k_entry, k_X, k_X_flat, k_passed, k_n_components, k_iterations,
                   kmeansplusplus, k_epsInv, k_indices, k_centroids, k_iteration,
                   k_assignment>>
    /\ UNCHANGED exceptKMeans

\* cluster_kmeans after the call: centroids_flat.view(size), return centroids
KReshape ==
    /\ k_pc = "reshape"
    /\ IF Prod(CentroidSize(k_X.shape, k_n_components)) = k_n_components * k_passed[2]
       THEN /\ k_pc' = "returned"
            /\ k_result' = CentroidSize(k_X.shape, k_n_components)
       ELSE /\ k_pc' = "RuntimeError"
            /\ UNCHANGED k_result
    /\ UNCHANGED <<k_entry, k_X, k_X_flat, k_passed, k_n_components, k_iterations,
                   kmeansplusplus, k_epsInv, k_indices, k_centroids, k_iteration,
                   k_assignment>>
    /\ UNCHANGED exceptKMeans

KMeansNext ==
    \/ KWrapper \/ KAssertFail \/ KSeed \/ KSeedFail
    \/ KIterate \/ KReturn \/ KReshape

(***************************************************************************)
(* Properties of cluster_kmeans_flat.                                      *)
(***************************************************************************)
\* The centre of the pair of rows a and b as the loop computes it: the sum of
\* the two points over 2 + epsilon.
PairCentre(pts, a, b, epsInv) ==
    [s |-> VecScale(epsInv, VecAdd(pts[a], pts[b])), d |-> 1 + 2 * epsInv]

\* The pair (1 or 2) of the point of 0-based index i
PairOfIndex(i) == IF i \in {0, 1} THEN 1 ELSE 2

\* A finished call of cluster_kmeans_flat with k = 2, kmeansplusplus = False and
\* at least 5 iterations on two well-separated pairs
C1_Case ==
    /\ k_pc = "returned"
    /\ k_entry = "cluster_kmeans_flat"
    /\ k_X.shape = <<4, 2>>
    /\ WellSeparatedPairs(k_X.pts)
    /\ k_n_components = 2 /\ ~kmeansplusplus /\ k_iterations >= 5

CentroidsArePairCentres ==
    {k_centroids[1], k_centroids[2]} =
        {PairCentre(k_X.pts, 1, 2, k_epsInv), PairCentre(k_X.pts, 3, 4, k_epsInv)}

\* C1 as stated: whichever two distinct seed points were drawn, the centroids
\* returned are the two pair centres.
C1_Original == C1_Case => CentroidsArePairCentres

\* C1 amended: when the two seeds were drawn one from each pair, the centroids
\* returned are the two pair centres, centroid j the centre of the pair of
\* seed j.
C1_SeedsFromBothPairs ==
    (C1_Case /\ PairOfIndex(k_indices[1]) # PairOfIndex(k_indices[2])) =>
        /\ CentroidsArePairCentres
        /\ \A j \in 1..2 :
              k_centroids[j] =
                  IF PairOfIndex(k_indices[j]) = 1
                  THEN PairCentre(k_X.pts, 1, 2, k_epsInv)
                  ELSE PairCentre(k_X.pts, 3, 4, k_epsInv)

\* Seeds (1,0) and (4,1), one of each of the pairs (0,0) (1,0) and (4,0) (4,1),
\* and the pair centres (1,0)/2.001 and (8,1)/2.001 returned.
C1_Witness ==
    /\ C1_Case
    /\ k_X.pts = <<(<<0, 0>>), (<<1, 0>>), (<<4, 0>>), (<<4, 1>>)>>
    /\ k_indices = <<1, 3>>
    /\ k_centroids = <<[s |-> <<1000, 0>>, d |-> 2001], [s |-> <<8000, 1000>>, d |-> 2001]>>

(***************************************************************************)
(* wasserstein.py: log_sum_exp, compute_sinkhorn_stable.                   *)
(*                                                                         *)
(* A floating-point number is modelled by its class: "fin" (finite),       *)
(* "-inf", "+inf" or "nan"; an entry of a marginal by its sign; an entry   *)
(* of a plan by "pos", "zero", "inf" or "nan". The cost matrix is finite,  *)
(* so log_K = -regularization * m is finite throughout.                    *)
(* A dual vector also carries its history: for each cost matrix it was     *)
(* iterated on, in order, the number of updates it received. Two duals     *)
(* (or plans) are the same value when class and history agree.             *)
(***************************************************************************)
Signs == {"neg", "zero", "pos"}

\* r is None / c is None
NoMarginal == [none |-> TRUE, sign |-> <<>>]
Marginal(sg) == [none |-> FALSE, sign |-> sg]

\* torch.ones(n) / n
Uniform(n) == [i \in 1..n |-> "pos"]

\* torch.log of one entry
Log(sg) == CASE sg = "pos" -> "fin" [] sg = "zero" -> "-inf" [] sg = "neg" -> "nan"

\* log_v is None
NoDual == [none |-> TRUE, cls |-> <<>>, hist |-> <<>>]

\* torch.zeros(m.size()[1])
Zeros(n) == [none |-> FALSE, cls |-> [j \in 1..n |-> "fin"], hist |-> <<>>]

\* The history of a dual after one more update on the cost matrix id
Bump(h, id) ==
    IF h # <<>> /\ h[Len(h)].m = id
    THEN [h EXCEPT ![Len(h)].t = @ + 1]
    ELSE Append(h, [m |-> id, t |-> 1])

\* log_sum_exp(u, dim) along one slice whose entries have the classes in cs:
\* u_max is the largest entry; u - u_max is nan where both are infinite of the
\* same sign, which is the case of a slice of -inf only and of any slice with
\* +inf; otherwise the entry at the maximum contributes exp(0) = 1 and the
\* result is finite.
log_sum_exp(cs) ==
    IF "nan" \in cs \/ "+inf" \in cs THEN "nan"
    ELSE IF "fin" \in cs THEN "fin"
    ELSE "nan"

\* a + b for a finite b
AddFinite(a) == a

\* a - b for b a result of log_sum_exp (finite or nan)
Minus(a, b) == IF b = "nan" \/ a = "nan" THEN "nan" ELSE a

\* a + b
Plus(a, b) ==
    IF a = "nan" \/ b = "nan" THEN "nan"
    ELSE IF {a, b} = {"-inf", "+inf"} THEN "nan"
    ELSE IF a = "fin" THEN b
    ELSE a

\* torch.exp of one entry
Exp(a) ==
    CASE a = "nan" -> "nan" [] a = "-inf" -> "zero" [] a = "+inf" -> "inf"
      [] a = "fin" -> "pos"

\* log_u = log_r - log_sum_exp(log_K + log_v[None, :], dim=1)
UpdateU(m, log_r, log_v) ==
    [bound |-> TRUE,
     cls |-> [i \in 1..m.rows |->
                Minus(log_r[i], log_sum_exp({AddFinite(log_v.cls[j]) : j \in 1..m.cols}))],
     hist |-> Bump(log_v.hist, m.id)]

\* log_v = log_c - log_sum_exp(log_u[:, None] + log_K, dim=0)
UpdateV(m, log_c, log_u, log_v) ==
    [none |-> FALSE,
     cls |-> [j \in 1..m.cols |->
                Minus(log_c[j], log_sum_exp({AddFinite(log_u.cls[i]) : i \in 1..m.rows}))],
     hist |-> Bump(log_v.hist, m.id)]

\* The local log_u before the loop has assigned it
UnboundU == [bound |-> FALSE, cls |-> <<>>, hist |-> <<>>]

\* A local P no assignment has reached, and the plan of a call that raised
UnboundP == [bound |-> FALSE, cls |-> <<>>, u |-> <<>>, v |-> <<>>]

\* One iteration of the main loop on the locals st = [i, log_u, log_v]
MainLoopBody(m, log_r, log_c, st) ==
    LET u == UpdateU(m, log_r, st.log_v)
    IN [i |-> st.i + 1, log_u |-> u, log_v |-> UpdateV(m, log_c, u, st.log_v)]

RECURSIVE MainLoop(_, _, _, _, _)
\* for i in xrange(iterations): the locals after the loop; i counts the
\* iterations run
MainLoop(m, log_r, log_c, st, its) ==
    IF st.i >= its THEN st
    ELSE MainLoop(m, log_r, log_c, MainLoopBody(m, log_r, log_c, st), its)

\* log_P = log_u[:, None] + log_K + log_v[None, :]; P = torch.exp(log_P)
Plan(m, log_u, log_v) ==
    [bound |-> TRUE,
     cls |-> [i \in 1..m.rows |->
                [j \in 1..m.cols |-> Exp(Plus(AddFinite(log_u.cls[i]), log_v.cls[j]))]],
     u |-> log_u.hist,
     v |-> log_v.hist]

\* compute_sinkhorn_stable(m, r, c, log_v, regularization, iterations): what the
\* call returns, or the exception it raises, and the number of iterations of
\* the main loop it ran. No statement of the function inspects r or c; the
\* line after the loop reads log_u, which only the loop body assigns.
compute_sinkhorn_stable(m, r, c, log_v, its) ==
    LET log_r == [i \in 1..m.rows |-> Log((IF r.none THEN Uniform(m.rows) ELSE r.sign)[i])]
        log_c == [j \in 1..m.cols |-> Log((IF c.none THEN Uniform(m.cols) ELSE c.sign)[j])]
        log_v0 == IF log_v.none THEN Zeros(m.cols) ELSE log_v
        end == MainLoop(m, log_r, log_c, [i |-> 0, log_u |-> UnboundU, log_v |-> log_v0], its)
    IN IF ~end.log_u.bound
       THEN [status |-> "UnboundLocalError", ran |-> end.i, P |-> UnboundP,
             log_u |-> UnboundU, log_v |-> end.log_v]
       ELSE [status |-> "returned", ran |-> end.i,
             P |-> Plan(m, end.log_u, end.log_v),
             log_u |-> end.log_u, log_v |-> end.log_v]

\* No call made yet
NoCall == [status |-> "none", ran |-> 0, P |-> UnboundP, log_u |-> UnboundU,
           log_v |-> NoDual]

SinkhornIdle ==
    /\ s_pc = "idle" /\ s_m = [id |-> 0, rows |-> 0, cols |-> 0]
    /\ s_r = NoMarginal /\ s_c = NoMarginal /\ s_iterations = 0
    /\ s_first = NoCall /\ s_warm_iterations = 0 /\ s_second = NoCall

\* compute_sinkhorn_stable(m, r, c, iterations=s_iterations)
SinkhornInit ==
    /\ s_pc = "entry"
    /\ \E rows, cols \in 1..MaxDim :
         /\ s_m = [id |-> 0, rows |-> rows, cols |-> cols]
         /\ s_r \in {NoMarginal} \cup {Marginal(sg) : sg \in [1..rows -> Signs]}
         /\ s_c \in {NoMarginal} \cup {Marginal(sg) : sg \in [1..cols -> Signs]}
    /\ s_iterations \in 0..MaxSinkhornIter
    /\ s_first = NoCall /\ s_warm_iterations = 0 /\ s_second = NoCall

\* The first call, from entry to return or exception
SinkhornCall ==
    /\ s_pc = "entry"
    /\ LET res == compute_sinkhorn_stable(s_m, s_r, s_c, NoDual, s_iterations)
       IN /\ s_first' = res
          /\ s_pc' = res.status
    /\ UNCHANGED <<s_m, s_r, s_c, s_iterations, s_warm_iterations, s_second>>
    /\ UNCHANGED exceptSinkhorn

\* A second call on the same m, r, c, warm-started with the log_v the first
\* returned: compute_sinkhorn_stable(m, r, c, log_v=log_v, iterations=...)
SinkhornWarmCall ==
    /\ s_pc = "returned"
    /\ \E its \in 0..MaxSinkhornIter :
         LET res == compute_sinkhorn_stable(s_m, s_r, s_c, s_first.log_v, its)
         IN /\ s_warm_iterations' = its
            /\ s_second' = res
            /\ s_pc' = IF res.status = "returned" THEN "warm_returned"
                       ELSE "warm_UnboundLocalError"
    /\ UNCHANGED <<s_m, s_r, s_c, s_iterations, s_first>>
    /\ UNCHANGED exceptSinkhorn

SinkhornNext == SinkhornCall \/ SinkhornWarmCall

(***************************************************************************)
(* Properties of compute_sinkhorn_stable.                                  *)
(***************************************************************************)
\* C2 as stated: after a call with T >= 1 iterations (r and c left to their
\* defaults) returned plan P and dual log_v, the call with that log_v and
\* iterations = 0 completes and returns the same plan P.
C2_Original ==
    (/\ s_pc \in {"warm_returned", "warm_UnboundLocalError"}
     /\ s_r.none /\ s_c.none
     /\ s_iterations >= 1 /\ s_warm_iterations = 0)
    => /\ s_second.status = "returned"
       /\ s_second.P = s_first.P

\* A marginal with an entry <= 0
Invalid(marginal) ==
    ~marginal.none /\ \E i \in DOMAIN marginal.sign : marginal.sign[i] \in {"neg", "zero"}

\* C3 as stated, for the calls that ask for at least one iteration: a call
\* whose r or c has an entry <= 0 ends in an invalid-distribution error raised
\* at entry: no iteration of the main loop has run and no plan is returned.
C3_Original ==
    ((Invalid(s_r) \/ Invalid(s_c)) /\ s_pc # "entry" /\ s_iterations >= 1)
    => /\ s_pc = "InvalidDistributionError"
       /\ s_first.ran = 0
       /\ ~s_first.P.bound

(***************************************************************************)
(* wasserstein.py: cluster_wasserstein_flat, cluster_wasserstein.          *)
(*                                                                         *)
(* Tensors are modelled by their shapes, the duals and plans by the values *)
(* compute_sinkhorn_stable returns, and autograd by the graph of backward  *)
(* edges <<tensor, operand>> between the tensors that require grad. The    *)
(* tensor a local names in outer iteration i is <<name, i>>; X is <<"X",   *)
(* 0>> and the centroids entering iteration i are <<"centroids", i>>.      *)
(***************************************************************************)
X_node == <<"X", 0>>

\* The result of an operation on the operands ops: it requires grad, and has a
\* backward edge to each operand that does, when some operand requires grad.
Op(g, node, ops) ==
    LET live == ops \cap g.requires
    IN IF live = {} THEN g
       ELSE [edges |-> g.edges \cup {<<node, o>> : o \in live},
             requires |-> g.requires \cup {node}]

\* tensor.detach_(): the tensor becomes a leaf that does not require grad
detach_(g, node) ==
    [edges |-> {e \in g.edges : e[1] # node},
     requires |-> g.requires \ {node}]

\* The tensor stop_gradient detaches in outer iteration it, were it P
StopGradientTargetP(it) == <<"P", it>>

\* The tensor stop_gradient detaches in outer iteration it
StopGradientTarget(it) == <<"soft_assignments", it>>

\* Inner iteration counts that do not tell the first outer iteration apart
sinkhorn_iterations_flat(iteration) == 4

\* sinkhorn_iterations = 20 if iteration == 0 else 4
sinkhorn_iterations(iteration) == IF iteration = 0 THEN 20 ELSE 4

\* No result
NoResult == [centroids |-> <<>>, P |-> UnboundP]

WassersteinIdle ==
    /\ w_pc = "idle" /\ w_entry = "idle" /\ w_X = <<>> /\ w_passed = <<>>
    /\ w_n_components = 0 /\ w_iterations = 0
    /\ stop_gradient = FALSE /\ add_noise = 0 /\ w_requires_grad = FALSE
    /\ w_iteration = 0 /\ w_log_v = NoDual /\ w_P = UnboundP /\ w_calls = <<>>
    /\ w_edges = {} /\ w_requires = {} /\ w_noised = {} /\ w_result = NoResult

\* The state at the call of w_entry
WassersteinCalled ==
    /\ w_pc = w_entry
    /\ w_passed = IF w_entry = "cluster_wasserstein_flat" THEN w_X ELSE <<>>
    /\ w_iteration = 0 /\ w_log_v = NoDual /\ w_P = UnboundP /\ w_calls = <<>>
    /\ w_edges = {}
    /\ w_requires = IF w_requires_grad THEN {X_node} ELSE {}
    /\ w_noised = {} /\ w_result = NoResult

\* cluster_wasserstein(X, 2, iterations=N, stop_gradient=.., add_noise=..) or
\* cluster_wasserstein_flat(..) on a tensor X of a shape of Shapes; add_noise
\* is 0 or positive.
WassersteinInit ==
    /\ w_entry \in {"cluster_wasserstein", "cluster_wasserstein_flat"}
    /\ w_X \in Shapes
    /\ w_n_components = 2
    /\ w_iterations \in 0..MaxOuter
    /\ stop_gradient \in BOOLEAN
    /\ add_noise \in {0, 1}
    /\ w_requires_grad \in BOOLEAN
    /\ WassersteinCalled

\* cluster_wasserstein down to its call of cluster_wasserstein_flat
WWrapper ==
    /\ w_pc = "cluster_wasserstein"
    /\ w_passed' = FlatShape(w_X)
    /\ w_pc' = "cluster_wasserstein_flat"
    /\ UNCHANGED <<w_entry, w_X, w_n_components, w_iterations, stop_gradient,
                   add_noise, w_requires_grad, w_iteration, w_log_v, w_P, w_calls,
                   w_edges, w_requires, w_noised, w_result>>
    /\ UNCHANGED exceptWasserstein

\* assert len(X.size()) == 2 fails
WAssertFail ==
    /\ w_pc = "cluster_wasserstein_flat"
    /\ Len(w_passed) # 2
    /\ w_pc' = "AssertionError"
    /\ UNCHANGED <<w_entry, w_X, w_passed, w_n_components, w_iterations,
                   stop_gradient, add_noise, w_requires_grad, w_iteration, w_log_v,
                   w_P, w_calls, w_edges, w_requires, w_noised, w_result>>
    /\ UNCHANGED exceptWasserstein

\* The assertion holds; centroids = 0.01 * torch.randn(..); log_v = None
WStart ==
    /\ w_pc = "cluster_wasserstein_flat"
    /\ Len(w_passed) = 2
    /\ w_log_v' = NoDual
    /\ w_pc' = "loop"
    /\ UNCHANGED <<w_entry, w_X, w_passed, w_n_components, w_iterations,
                   stop_gradient, add_noise, w_requires_grad, w_iteration, w_P,
                   w_calls, w_edges, w_requires, w_noised, w_result>>
    /\ UNCHANGED exceptWasserstein

\* One iteration of for iteration in xrange(iterations)
WOuter ==
    /\ w_pc = "loop"
    /\ w_iteration < w_iterations
    /\ LET it == w_iteration
           distances == [id |-> it + 1, rows |-> w_passed[1], cols |-> w_n_components]
           inner == sinkhorn_iterations(it)
           res == compute_sinkhorn_stable(distances, NoMarginal, NoMarginal, w_log_v, inner)
           duals == {<<"distances", it>>}
                      \cup (IF w_log_v.none THEN {} ELSE {<<"log_v", it - 1>>})
           g0 == [edges |-> w_edges, requires |-> w_requires]
           g1 == Op(g0, <<"distances", it>>, {X_node, <<"centroids", it>>})
           g2 == Op(g1, <<"log_v", it>>, duals)
           g3 == Op(g2, <<"P", it>>, duals)
           g4 == Op(g3, <<"soft_assignments", it>>, {<<"P", it>>})
           g5 == IF stop_gradient THEN detach_(g4, StopGradientTarget(it)) ELSE g4
           g6 == Op(g5, <<"centroids", it + 1>>, {<<"soft_assignments", it>>, X_node})
       IN /\ w_calls' = Append(w_calls, [iterations |-> inner, log_v |-> w_log_v,
                                         ran |-> res.ran, out |-> res.log_v])
          /\ w_P' = res.P
          /\ w_log_v' = res.log_v
          /\ w_edges' = g6.edges
          /\ w_requires' = g6.requires
          /\ w_noised' = IF add_noise > 0 THEN w_noised \cup {it} ELSE w_noised
    /\ w_iteration' = w_iteration + 1
    /\ UNCHANGED <<w_pc, w_entry, w_X, w_passed, w_n_components, w_iterations,
                   stop_gradient, add_noise, w_requires_grad, w_result>>
    /\ UNCHANGED exceptWasserstein

\* return centroids, P: P is a local only the loop body assigns
WReturn ==
    /\ w_pc = "loop"
    /\ w_iteration = w_iterations
    /\ IF ~w_P.bound
       THEN w_pc' = "UnboundLocalError" /\ UNCHANGED w_result
       ELSE /\ w_result' = [centroids |-> <<w_n_components, w_passed[2]>>, P |-> w_P]
            /\ w_pc' = IF w_entry = "cluster_wasserstein" THEN "view" ELSE "returned"
    /\ UNCHANGED <<w_entry, w_X, w_passed, w_n_components, w_iterations,
                   stop_gradient, add_noise, w_requires_grad, w_iteration, w_log_v,
                   w_P, w_calls, w_edges, w_requires, w_noised>>
    /\ UNCHANGED exceptWasserstein

\* size = list(X.size()); size[0] = n_components; centroids_flat.view(size)
WReshape ==
    /\ w_pc = "view"
    /\ w_result' = [w_result EXCEPT !.centroids = CentroidSize(w_X, w_n_components)]
    /\ w_pc' = "returned"
    /\ UNCHANGED <<w_entry, w_X, w_passed, w_n_components, w_iterations,
                   stop_gradient, add_noise, w_requires_grad, w_iteration, w_log_v,
                   w_P, w_calls, w_edges, w_requires, w_noised>>
    /\ UNCHANGED exceptWasserstein

WassersteinNext ==
    WWrapper \/ WAssertFail \/ WStart \/ WOuter \/ WReturn \/ WReshape

(***************************************************************************)
(* Properties of the Wasserstein clustering.                               *)
(***************************************************************************)
RECURSIVE InnerTotal(_)
\* Main-loop iterations run by the first n calls of compute_sinkhorn_stable
InnerTotal(n) == IF n = 0 THEN 0 ELSE InnerTotal(n - 1) + w_calls[n].ran

\* C7: the first outer iteration calls compute_sinkhorn_stable with 20
\* iterations and log_v = None, every later one with 4 iterations and the
\* log_v the previous call returned; each call runs as many main-loop
\* iterations as it was given, so that after n >= 1 outer iterations
\* 20 + 4 * (n - 1) of them have run, and a returned call has made
\* exactly w_iterations calls.
C7_WarmStartSchedule ==
    /\ Len(w_calls) = w_iteration
    /\ \A n \in 1..Len(w_calls) :
         /\ w_calls[n].iterations = IF n = 1 THEN 20 ELSE 4
         /\ w_calls[n].ran = w_calls[n].iterations
         /\ w_calls[n].log_v = IF n = 1 THEN NoDual ELSE w_calls[n - 1].out
         /\ ~w_calls[n].out.none
         /\ InnerTotal(n) = 20 + 4 * (n - 1)
    /\ ~w_log_v.none => w_log_v = w_calls[Len(w_calls)].out
    /\ w_pc \in {"view", "returned"} => Len(w_calls) = w_iterations

\* Three outer iterations returned after 20 + 4 + 4 inner iterations, the
\* third call warm-started from the dual of the second.
C7_Witness ==
    /\ w_pc = "returned"
    /\ w_iterations = 3
    /\ Len(w_calls) = 3
    /\ InnerTotal(3) = 28
    /\ w_calls[3].log_v = w_calls[2].out
    /\ w_calls[3].log_v.hist = <<[m |-> 1, t |-> 20], [m |-> 2, t |-> 4]>>

\* C8 as stated: a call of cluster_wasserstein_flat with iterations = N >= 0 on
\* a two-dimensional X that has left its loop has run exactly N outer
\* iterations and returns centroids and a plan.
C8_Original ==
    (/\ Len(w_passed) = 2
     /\ w_pc \notin {"cluster_wasserstein", "cluster_wasserstein_flat", "loop"})
    => /\ w_iteration = w_iterations
       /\ w_pc \in {"view", "returned"}
       /\ w_result.P.bound

RECURSIVE Ancestors(_, _)
\* The tensors backward from the tensors of nodes reaches along edges
Ancestors(edges, nodes) ==
    LET next == nodes \cup {e[2] : e \in {d \in edges : d[1] \in nodes}}
    IN IF next = nodes THEN nodes ELSE Ancestors(edges, next)

\* The operands node has a backward edge to
Operands(node) == {e[2] : e \in {d \in w_edges : d[1] = node}}

\* C9: with stop_gradient set, the soft assignments of every finished outer
\* iteration have no backward edge, so nothing is reached backward from them,
\* in particular neither X nor the previous centroids, and the new centroids
\* depend on X through the product alone; with it unset, and X requiring grad,
\* the soft assignments reach X, and the previous centroids once these depend
\* on X. In both cases the plan keeps its own edge to the distances and the
\* distances theirs to X, and the centroids keep the product's edge to X.
C9_StopGradientSeversSoftAssignments ==
    \A it \in 0..(w_iteration - 1) :
      LET soft == <<"soft_assignments", it>>
          new == <<"centroids", it + 1>>
          back == Ancestors(w_edges, {soft})
      IN /\ stop_gradient =>
              /\ Operands(soft) = {}
              /\ back = {soft}
              /\ soft \notin w_requires
              /\ Operands(new) \subseteq {X_node}
              /\ Ancestors(w_edges, {new}) \subseteq {new, X_node}
         /\ (~stop_gradient /\ w_requires_grad) =>
              /\ Operands(soft) = {<<"P", it>>}
              /\ X_node \in back
              /\ it >= 1 => <<"centroids", it>> \in back
              /\ Operands(new) = {soft, X_node}
         /\ w_requires_grad =>
              /\ <<"distances", it>> \in Operands(<<"P", it>>)
              /\ X_node \in Operands(<<"distances", it>>)
              /\ X_node \in Operands(new)
         /\ ~w_requires_grad => w_edges = {}

\* Two outer iterations with stop_gradient on an X that requires grad: the
\* returned centroids have the single backward edge to X, while the plan still
\* reaches X through the distances.
C9_Witness ==
    /\ w_pc = "returned"
    /\ stop_gradient /\ w_requires_grad
    /\ w_iteration = 2
    /\ Operands(<<"centroids", 2>>) = {X_node}
    /\ Operands(<<"soft_assignments", 1>>) = {}
    /\ X_node \in Ancestors(w_edges, {<<"P", 1>>})

\* Two outer iterations without stop_gradient on an X that requires grad: the
\* soft assignments reach X and the previous centroids.
C9_WitnessUnset ==
    /\ w_pc = "returned"
    /\ ~stop_gradient /\ w_requires_grad
    /\ w_iteration = 2
    /\ {X_node, <<"centroids", 1>>} \subseteq Ancestors(w_edges, {<<"soft_assignments", 1>>})

(***************************************************************************)
(* The two wrappers on the same tensor: cluster_kmeans(X, 2), and once it  *)
(* has returned or raised, cluster_wasserstein(X, 2, iterations=1).        *)
(***************************************************************************)
ClusterWrappersInit ==
    /\ \E sh \in Shapes, same \in BOOLEAN : k_X = [shape |-> sh, pts |-> Rows(sh, same)]
    /\ k_entry = "cluster_kmeans"
    /\ kmeansplusplus \in BOOLEAN
    /\ k_n_components = 2
    /\ k_iterations \in {0, MaxKIter}
    /\ k_epsInv = 1000
    /\ KMeansCalled
    /\ w_entry = "cluster_wasserstein"
    /\ w_X = k_X.shape
    /\ w_n_components = 2
    /\ w_iterations = 1
    /\ stop_gradient = TRUE
    /\ add_noise = 1
    /\ w_requires_grad = FALSE
    /\ WassersteinCalled

\* cluster_kmeans has returned or raised
KMeansDone == k_pc \in {"returned", "AssertionError", "ValueError", "RuntimeError"}

ClusterWrappersNext == KMeansNext \/ (KMeansDone /\ WassersteinNext)

\* C10: cluster_kmeans computes X_flat = X.view((len(X), -1)) and passes X, not
\* X_flat, to cluster_kmeans_flat, so that on a tensor whose rank is not 2 the
\* call ends in the assertion of cluster_kmeans_flat, before any seeding or
\* iteration, and only a rank-2 tensor gets centroids; cluster_wasserstein
\* passes X_flat, never fails that assertion, and returns centroids of size
\* (n_components,) + X.size()[1:] for every rank.
C10_KMeansWrapperForwardsX ==
    /\ k_pc # "cluster_kmeans" =>
         /\ k_X_flat = FlatShape(k_X.shape)
         /\ k_passed = k_X.shape
    /\ Len(k_X.shape) # 2 =>
         /\ k_pc \in {"cluster_kmeans", "cluster_kmeans_flat", "AssertionError"}
         /\ k_indices = <<>> /\ k_centroids = <<>> /\ k_iteration = 0
    /\ (KMeansDone /\ Len(k_X.shape) # 2) => k_pc = "AssertionError"
    /\ k_pc = "returned" =>
         /\ Len(k_X.shape) = 2
         /\ k_result = CentroidSize(k_X.shape, k_n_components)
    /\ w_pc # "cluster_wasserstein" => w_passed = FlatShape(w_X)
    /\ w_pc # "AssertionError"
    /\ w_pc = "returned" => w_result.centroids = CentroidSize(w_X, w_n_components)

\* The rank-3 tensor of size (4, 2, 2): cluster_kmeans raised the assertion
\* error, cluster_wasserstein returned centroids of size (2, 2, 2).
C10_Witness ==
    /\ k_X.shape = <<4, 2, 2>> /\ w_X = <<4, 2, 2>>
    /\ k_pc = "AssertionError"
    /\ k_passed = <<4, 2, 2>> /\ k_X_flat = <<4, 4>>
    /\ w_pc = "returned"
    /\ w_passed = <<4, 4>>
    /\ w_result.centroids = <<2, 2, 2>>

(***************************************************************************)
(* The specifications.                                                     *)
(***************************************************************************)
InitTrain == TrainInit /\ HungarianIdle /\ KMeansIdle /\ SinkhornIdle /\ WassersteinIdle
InitHungarian == HungarianInit /\ TrainIdle /\ KMeansIdle /\ SinkhornIdle /\ WassersteinIdle
InitKMeans == KMeansInit /\ TrainIdle /\ HungarianIdle /\ SinkhornIdle /\ WassersteinIdle
InitWasserstein == WassersteinInit /\ TrainIdle /\ HungarianIdle /\ KMeansIdle /\ SinkhornIdle
InitClusterWrappers == ClusterWrappersInit /\ TrainIdle /\ HungarianIdle /\ SinkhornIdle
InitSinkhorn == SinkhornInit /\ TrainIdle /\ HungarianIdle /\ KMeansIdle /\ WassersteinIdle

SpecTrain == InitTrain /\ [][TrainNext]_vars
SpecHungarian == InitHungarian /\ [][HungarianNext]_vars
SpecKMeans == InitKMeans /\ [][KMeansNext]_vars
SpecWasserstein == InitWasserstein /\ [][WassersteinNext]_vars
SpecClusterWrappers == InitClusterWrappers /\ [][ClusterWrappersNext]_vars
SpecSinkhorn == InitSinkhorn /\ [][SinkhornNext]_vars
====
